---- MODULE Spec2Model ----
(***************************************************************************)
(* CineAI: the MovieSearchApp component (components/movies-search).        *)
(* The React state of the component, the genre-list effect run on mount,   *)
(* and handleSearch with its three suspension points (the generative-text  *)
(* call, the keyword-search calls, the discover call).  JavaScript runs    *)
(* each continuation to completion, so one action is one event-loop task:  *)
(* a user event, or the arrival of one network response together with      *)
(* everything the awaiting code does up to its next await.                 *)
(*                                                                         *)
(* Strings the code inspects character by character (trim, toLowerCase)    *)
(* are sequences of one-character strings; messages are plain strings.     *)
(***************************************************************************)
EXTENDS Integers, Sequences, FiniteSets, TLC

VARIABLES
    TMDB_TOKEN,        \* VITE_TMDB_API_TOKEN is configured
    GEMINI_API_KEY,    \* VITE_GEMINI_API_KEY is configured
    TMDB_API_KEY,      \* VITE_TMDB_API_KEY is configured
    userText,          \* useState<string>("")
    loading,           \* useState<boolean>(false)
    movies,            \* useState<Movie[]>([])
    error,             \* useState<string>("")
    tmdbData,          \* useState<TMDBData>({genres: [], keywords: {}})
    genresPc,          \* position of the mount effect: "mount", "await", "done"
    pc,                \* position of handleSearch: "idle", "awaitGemini",
                       \*   "awaitKeywords", "awaitDiscover"
    closure,           \* the tmdbData and userText captured by the render whose
                       \*   handleSearch is running
    queryParams,       \* the intent handleSearch destructured, or Null
    genreIds,          \* the genre ids handleSearch computed before the keyword await
    keywordResults,    \* one entry per intent keyword: Pending, Null or Id(n)
    net,               \* the requests in flight
    calls,             \* history: the kinds of request issued in the session
    kwCalls,           \* history: keyword-search calls issued, by query string
    sub,               \* history: what the current submission did so far (its
                       \*   calls by kind, the error messages it set, how its
                       \*   extractor call ended, what each keyword resolution
                       \*   of its pending mapping was answered)
    shown              \* history: the discover response the current submission got

vars == <<TMDB_TOKEN, GEMINI_API_KEY, TMDB_API_KEY, userText, loading, movies,
          error, tmdbData, genresPc, pc, closure, queryParams, genreIds,
          keywordResults, net, calls, kwCalls, sub, shown>>

env == <<TMDB_TOKEN, GEMINI_API_KEY, TMDB_API_KEY>>

----------------------------------------------------------------------------
(* Bounds and program constants *)

MaxSearches == 2        \* submissions of non-empty text in one session
MaxResults == 52        \* longest result list the provider returns
ResultCap == 50         \* results.slice(0, 50)

\* JavaScript values of mixed type (number | null, QueryParams | null) are
\* tagged records.
Null == [tag |-> "null"]
Pending == [tag |-> "pending"]
Id(n) == [tag |-> "id", id |-> n]

----------------------------------------------------------------------------
(* Strings *)

UpperChars == <<"A","B","C","D","E","F","G","H","I","J","K","L","M",
                "N","O","P","Q","R","S","T","U","V","W","X","Y","Z">>
LowerChars == <<"a","b","c","d","e","f","g","h","i","j","k","l","m",
                "n","o","p","q","r","s","t","u","v","w","x","y","z">>

LowerChar(c) ==
    IF \E i \in 1..Len(UpperChars) : UpperChars[i] = c
    THEN LowerChars[CHOOSE i \in 1..Len(UpperChars) : UpperChars[i] = c]
    ELSE c

\* String.prototype.toLowerCase
ToLowerCase(s) == [i \in 1..Len(s) |-> LowerChar(s[i])]

RECURSIVE TrimStart(_)
TrimStart(s) == IF s # <<>> /\ Head(s) = " " THEN TrimStart(Tail(s)) ELSE s

RECURSIVE TrimEnd(_)
TrimEnd(s) ==
    IF s # <<>> /\ s[Len(s)] = " " THEN TrimEnd(SubSeq(s, 1, Len(s) - 1)) ELSE s

\* String.prototype.trim
Trim(s) == TrimEnd(TrimStart(s))

Action == <<"A","c","t","i","o","n">>
Horror == <<"H","o","r","r","o","r">>
horror == <<"h","o","r","r","o","r">>
ZZZ == <<"Z","Z","Z">>
fighting == <<"f","i","g","h","t">>
Fighting == <<"F","i","g","h","t">>

\* What the user can have in the input box.
Texts == { <<" ">>, <<"h","o","r","r","o","r"," ">> }

----------------------------------------------------------------------------
(* What the two providers can answer *)

\* GET /genre/movie/list
GenreListResponses ==
    { [kind |-> "throw"],
      [kind |-> "ok", genres |-> << [id |-> 28, name |-> Action],
                                    [id |-> 27, name |-> Horror] >>] }

IntentGenres == { <<>>, <<Action, ZZZ>>, <<horror>> }
IntentKeywords == { <<>>, <<fighting>>, <<fighting, fighting>>,
                    <<fighting, Fighting>> }

Intents ==
    [tag : {"object"}, type : {"movie", "tv"}, genres : IntentGenres,
     keywords : IntentKeywords]

KeywordStrings == UNION { { ks[i] : i \in 1..Len(ks) } : ks \in IntentKeywords }

\* POST /models/...:generateContent.  "throw": the call fails; "notext": no
\* candidates[0].content.parts[0].text; "text": the text, given by what
\* JSON.parse makes of it: a SyntaxError (text cut short), or an object of the
\* response schema the request imposes, with its three required fields.
GeminiResponses ==
    { [kind |-> "throw"], [kind |-> "notext"],
      [kind |-> "text", parsed |-> [tag |-> "throw"]] }
    \cup { [kind |-> "text", parsed |-> q] : q \in Intents }

\* GET /search/keyword
KeywordSearchResponses ==
    { [kind |-> "throw"],
      [kind |-> "ok", results |-> <<>>],
      [kind |-> "ok", results |-> << [id |-> 1] >>],
      [kind |-> "ok", results |-> << [id |-> 2], [id |-> 1] >>] }

\* A result list of n titles in provider order (ids descending), with the
\* adult flags laid out by pattern p.
Titles(n, p) ==
    [i \in 1..n |->
        [id |-> n + 1 - i,
         adult |-> CASE p = "none" -> FALSE
                     [] p = "all" -> TRUE
                     [] p = "first" -> (i = 1)
                     [] OTHER -> (i % 2 = 1)]]

\* GET /discover/{type}
DiscoverResponses ==
    { [kind |-> "throw"] }
    \cup { [kind |-> "ok", results |-> Titles(n, p)] :
             n \in {0, 2, MaxResults}, p \in {"none", "all", "first", "odd"} }

----------------------------------------------------------------------------
(* The pure steps of the pipeline *)

Min(a, b) == IF a < b THEN a ELSE b

CredentialsMissing_TokenUnchecked == ~GEMINI_API_KEY

\* if (!TMDB_TOKEN || !GEMINI_API_KEY)
CredentialsMissing == ~TMDB_TOKEN \/ ~GEMINI_API_KEY

FindGenre_CaseSensitive(cache, g) ==
    LET hits == { j \in 1..Len(cache) : cache[j].name = g }
    IN  IF hits = {} THEN Null
        ELSE Id(cache[CHOOSE j \in hits : \A k \in hits : j <= k].id)

\* tmdbData.genres.find((tmdbG) => tmdbG.name.toLowerCase() === g.toLowerCase()):
\* the first cached genre that matches, Null when none does.
FindGenre(cache, g) ==
    LET hits == { j \in 1..Len(cache) :
                    ToLowerCase(cache[j].name) = ToLowerCase(g) }
    IN  IF hits = {} THEN Null
        ELSE Id(cache[CHOOSE j \in hits : \A k \in hits : j <= k].id)

FilterIds_AllOrNothing(rs) ==
    IF \E i \in 1..Len(rs) : rs[i].tag # "id" THEN <<>>
    ELSE [i \in 1..Len(rs) |-> rs[i].id]

\* .filter((id): id is number => id !== null), on genre ids and keyword ids
RECURSIVE FilterIds(_)
FilterIds(rs) ==
    IF rs = <<>> THEN <<>>
    ELSE IF Head(rs).tag # "id" THEN FilterIds(Tail(rs))
    ELSE <<Head(rs).id>> \o FilterIds(Tail(rs))

\* genres.map(...).filter(...): the ids of the intent's genres, in intent order
MapGenreIds(genres, cache) ==
    FilterIds([i \in 1..Len(genres) |-> FindGenre(cache, genres[i])])

\* if (tmdbData.keywords[keyword]) return tmdbData.keywords[keyword]
CachedKeywordId(keywords, keyword) ==
    IF \E e \in keywords : e.key = keyword /\ e.id # 0
    THEN Id((CHOOSE e \in keywords : e.key = keyword /\ e.id # 0).id)
    ELSE Null

PutKeyword_Stale(keywords, keyword, keywordId) ==
    { e \in closure.keywords : e.key # keyword }
    \cup { [key |-> keyword, id |-> keywordId] }

\* setTmdbData((prev) => ...): {...prev.keywords, [keyword]: keywordId}
PutKeyword(keywords, keyword, keywordId) ==
    { e \in keywords : e.key # keyword } \cup { [key |-> keyword, id |-> keywordId] }

\* What fetchTMDBKeywordId returns for a response: the first result's id, null
\* when the call threw or found nothing.
KeywordIdOf(resp) ==
    IF resp.kind = "ok" /\ Len(resp.results) > 0
    THEN Id(resp.results[1].id)
    ELSE Null

AllSettled_Any(results) == \E i \in 1..Len(results) : results[i] # Pending

\* Promise.all(keywordPromises) has resolved: every resolution has settled.
AllSettled(results) == \A i \in 1..Len(results) : results[i] # Pending

\* extractQueryWithSchema takes its catch branch: the call failed, the candidate
\* text is missing, or JSON.parse threw.
ExtractFails(resp) ==
    \/ resp.kind \in {"throw", "notext"}
    \/ resp.parsed.tag = "throw"

ExtractResult_Fallback(resp) ==
    IF ExtractFails(resp)
    THEN [tag |-> "object", type |-> "movie", genres |-> <<>>, keywords |-> <<>>]
    ELSE resp.parsed

\* What extractQueryWithSchema returns.
ExtractResult(resp) == IF ExtractFails(resp) THEN Null ELSE resp.parsed

\* The query string of the discover call.  An id list stands for its
\* join(","); an empty one is falsy and the parameter is left out.
DiscoverParams(type, gids, kids) ==
    [sort_by |-> "popularity.desc",
     with_genres |-> gids,
     with_keywords |-> kids,
     include_adult |-> IF type = "movie" THEN "false" ELSE "absent"]

ExcludeAdult_Unfiltered(type, results) == results

\* if (type === "movie") results = results.filter((movie) => !movie.adult)
ExcludeAdult(type, results) ==
    IF type = "movie"
    THEN SelectSeq(results, LAMBDA m : ~m.adult)
    ELSE results

SliceResults_OneMore(results) ==
    SubSeq(results, 1, Min(ResultCap + 1, Len(results)))

\* results.slice(0, 50)
SliceResults(results) == SubSeq(results, 1, Min(ResultCap, Len(results)))

\* .map((movie) => ({...movie, media_type: type}))
WithType(results, type) ==
    [i \in 1..Len(results) |->
        [id |-> results[i].id, adult |-> results[i].adult, media_type |-> type]]

----------------------------------------------------------------------------
(* Requests *)

GenresRequest == [kind |-> "genres", api_key |-> TMDB_API_KEY]
GeminiRequest == [kind |-> "gemini"]
KeywordRequest(i, keyword) ==
    [kind |-> "keyword", idx |-> i, query |-> keyword, api_key |-> TMDB_API_KEY]
DiscoverRequest(type, gids, kids) ==
    [kind |-> "discover", type |-> type, api_key |-> TMDB_API_KEY,
     params |-> DiscoverParams(type, gids, kids)]

\* How the generative-text call ended, as the history records it.
ExtractorOutcome(resp) ==
    IF resp.kind # "text" THEN resp.kind
    ELSE IF resp.parsed.tag = "throw" THEN "unparsable"
    ELSE resp.parsed.tag

NoClosure == [genres |-> <<>>, keywords |-> {}]
NoSub == [n |-> 0, gemini |-> 0, keyword |-> 0, discover |-> 0, errors |-> 0,
          extractor |-> "none", replies |-> <<>>]
NothingShown == [type |-> "none", results |-> <<>>]

----------------------------------------------------------------------------
(* Initial state: the component as constructed, before its mount effect.   *)
(* Each import.meta.env credential is set or missing for the whole session. *)

Configured == <<TRUE, FALSE>>

Init ==
    /\ \E c \in 1..Len(Configured) : TMDB_TOKEN = Configured[c]
    /\ \E c \in 1..Len(Configured) : GEMINI_API_KEY = Configured[c]
    /\ \E c \in 1..Len(Configured) : TMDB_API_KEY = Configured[c]
    /\ userText = <<>>
    /\ loading = FALSE
    /\ movies = <<>>
    /\ error = ""
    /\ tmdbData = [genres |-> <<>>, keywords |-> {}]
    /\ genresPc = "mount"
    /\ pc = "idle"
    /\ closure = NoClosure
    /\ queryParams = Null
    /\ genreIds = <<>>
    /\ keywordResults = <<>>
    /\ net = {}
    /\ calls = {}
    /\ kwCalls = [k \in KeywordStrings |-> 0]
    /\ sub = NoSub
    /\ shown = NothingShown

----------------------------------------------------------------------------
(* useEffect(() => { fetchTMDBGenres() }, []) *)

fetchTMDBGenres ==
    /\ genresPc = "mount"
    /\ IF ~TMDB_TOKEN
       THEN /\ error' = "TMDB API token is not configured."
            /\ genresPc' = "done"
            /\ UNCHANGED <<net, calls>>
       ELSE /\ net' = net \cup {GenresRequest}
            /\ calls' = calls \cup {"genres"}
            /\ genresPc' = "await"
            /\ UNCHANGED error
    /\ UNCHANGED <<env, userText, loading, movies, tmdbData, pc, closure,
                   queryParams, genreIds, keywordResults, kwCalls, sub, shown>>

\* The genre-list call settles: the rest of fetchTMDBGenres.
GenresResponse(req, resp) ==
    /\ req \in net
    /\ req.kind = "genres"
    /\ net' = net \ {req}
    /\ genresPc' = "done"
    /\ IF resp.kind = "ok"
       THEN /\ tmdbData' = [tmdbData EXCEPT !.genres = resp.genres]
            /\ UNCHANGED error
       ELSE /\ error' = "Could not load genre data."
            /\ UNCHANGED tmdbData
    /\ UNCHANGED <<env, userText, loading, movies, pc, closure, queryParams,
                   genreIds, keywordResults, calls, kwCalls, sub, shown>>

----------------------------------------------------------------------------
(* The input box: onChange, the example buttons, the genre buttons.  The   *)
(* input is disabled while loading.                                        *)

SetUserText(t) ==
    /\ genresPc # "mount"
    /\ ~loading
    /\ sub.n < MaxSearches
    /\ t # userText
    /\ userText' = t
    /\ UNCHANGED <<env, loading, movies, error, tmdbData, genresPc, pc, closure,
                   queryParams, genreIds, keywordResults, net, calls, kwCalls,
                   sub, shown>>

----------------------------------------------------------------------------
(* handleSearch, up to its first await.  The form can be submitted only    *)
(* while it is enabled, that is while loading is false.                    *)

FormEnabled_Always == TRUE

\* <Input disabled={loading}/>, <Button type="submit" disabled={loading || ...}>
FormEnabled == ~loading

ClearedMovies_Kept == movies

\* setMovies([])
ClearedMovies == <<>>

\* setError("")
ClearedError == ""

handleSearch ==
    /\ genresPc # "mount"
    /\ FormEnabled
    /\ sub.n < MaxSearches
    /\ IF Trim(userText) = <<>>
       THEN UNCHANGED vars
       ELSE IF CredentialsMissing
       THEN /\ error' = "API keys are not configured."
            /\ sub' = [NoSub EXCEPT !.n = sub.n + 1, !.errors = 1]
            /\ UNCHANGED <<env, userText, loading, movies, tmdbData, genresPc,
                           pc, closure, queryParams, genreIds, keywordResults,
                           net, calls, kwCalls, shown>>
       ELSE IF ~GEMINI_API_KEY
       THEN \* extractQueryWithSchema returns null before any call
            /\ loading' = FALSE
            /\ movies' = ClearedMovies
            /\ error' = "Gemini API key is not configured."
            /\ sub' = [NoSub EXCEPT !.n = sub.n + 1, !.errors = 1]
            /\ shown' = NothingShown
            /\ UNCHANGED <<env, userText, tmdbData, genresPc, pc, closure,
                           queryParams, genreIds, keywordResults, net, calls,
                           kwCalls>>
       ELSE /\ loading' = TRUE
            /\ movies' = ClearedMovies
            /\ error' = ClearedError
            /\ closure' = [genres |-> tmdbData.genres,
                           keywords |-> tmdbData.keywords]
            /\ net' = net \cup {GeminiRequest}
            /\ pc' = "awaitGemini"
            /\ calls' = calls \cup {"gemini"}
            /\ sub' = [NoSub EXCEPT !.n = sub.n + 1, !.gemini = 1]
            /\ shown' = NothingShown
            /\ UNCHANGED <<env, userText, tmdbData, genresPc, queryParams,
                           genreIds, keywordResults, kwCalls>>

----------------------------------------------------------------------------
(* The generative-text call settles: the rest of extractQueryWithSchema,   *)
(* then handleSearch up to its next await.  Every fetchTMDBKeywordId call  *)
(* of keywords.map runs up to its own await in this same task, reading the *)
(* keyword cache of the render that was submitted.                         *)

GeminiResponse(req, resp) ==
    /\ req \in net
    /\ req.kind = "gemini"
    /\ LET q == ExtractResult(resp)
           proceeds == q # Null     \* if (!queryParams) { setLoading(false); return }
           gids == IF proceeds THEN MapGenreIds(q.genres, closure.genres) ELSE <<>>
           results ==
               IF proceeds
               THEN [i \in 1..Len(q.keywords) |->
                        LET c == CachedKeywordId(closure.keywords, q.keywords[i])
                        IN  IF c = Null THEN Pending ELSE c]
               ELSE <<>>
           misses == { i \in 1..Len(results) : results[i] = Pending }
           replies == [i \in 1..Len(results) |->
                          IF i \in misses THEN [kind |-> "pending"]
                          ELSE [kind |-> "hit", id |-> results[i].id]]
           discover == proceeds /\ AllSettled(results)
           nerr == IF ExtractFails(resp) THEN 1 ELSE 0
       IN  /\ error' = IF ExtractFails(resp) THEN "Failed to process your request."
                       ELSE error
           /\ loading' = IF proceeds THEN loading ELSE FALSE
           /\ pc' = IF ~proceeds THEN "idle"
                    ELSE IF discover THEN "awaitDiscover" ELSE "awaitKeywords"
           /\ closure' = IF proceeds THEN closure ELSE NoClosure
           /\ queryParams' = IF proceeds THEN q ELSE Null
           /\ genreIds' = gids
           /\ keywordResults' = results
           /\ net' = (net \ {req}) \cup
                     (IF ~proceeds THEN {}
                      ELSE IF discover
                      THEN {DiscoverRequest(q.type, gids, FilterIds(results))}
                      ELSE { KeywordRequest(i, q.keywords[i]) : i \in misses })
           /\ calls' = calls \cup (IF misses # {} THEN {"keyword"} ELSE {})
                              \cup (IF discover THEN {"discover"} ELSE {})
           /\ kwCalls' = [k \in KeywordStrings |->
                            kwCalls[k]
                            + Cardinality({ i \in misses : q.keywords[i] = k })]
           /\ sub' = [sub EXCEPT
                        !.keyword = @ + Cardinality(misses),
                        !.discover = @ + (IF discover THEN 1 ELSE 0),
                        !.errors = @ + nerr,
                        !.extractor = ExtractorOutcome(resp),
                        !.replies = replies]
    /\ UNCHANGED <<env, userText, movies, tmdbData, genresPc, shown>>

----------------------------------------------------------------------------
(* One keyword-search call settles: the rest of that fetchTMDBKeywordId,   *)
(* and, when it was the last one outstanding, handleSearch from the        *)
(* Promise.all await up to the discover call.                              *)

KeywordResponse(req, resp) ==
    /\ req \in net
    /\ req.kind = "keyword"
    /\ LET r == KeywordIdOf(resp)
           results == [keywordResults EXCEPT ![req.idx] = r]
           discover == AllSettled(results)
       IN  /\ tmdbData' =
                 IF r # Null
                 THEN [tmdbData EXCEPT
                         !.keywords = PutKeyword(@, req.query, r.id)]
                 ELSE tmdbData
           /\ keywordResults' = results
           /\ net' = (net \ {req}) \cup
                     (IF discover
                      THEN {DiscoverRequest(queryParams.type, genreIds,
                                            FilterIds(results))}
                      ELSE {})
           /\ pc' = IF discover THEN "awaitDiscover" ELSE pc
           /\ calls' = calls \cup (IF discover THEN {"discover"} ELSE {})
           /\ sub' = [sub EXCEPT
                        !.discover = @ + (IF discover THEN 1 ELSE 0),
                        !.replies[req.idx] = resp]
    /\ UNCHANGED <<env, userText, loading, movies, error, genresPc, closure,
                   queryParams, genreIds, kwCalls, shown>>

----------------------------------------------------------------------------
(* The discover call settles: the rest of handleSearch. *)

DiscoverResponse(req, resp) ==
    /\ req \in net
    /\ req.kind = "discover"
    /\ LET ok == resp.kind = "ok"
           results == IF ok THEN ExcludeAdult(req.type, resp.results) ELSE <<>>
           moviesWithType == WithType(SliceResults(results), req.type)
           nerr == IF ~ok \/ Len(moviesWithType) = 0 THEN 1 ELSE 0
       IN  /\ movies' = IF ok THEN moviesWithType ELSE movies
           /\ error' = IF ~ok THEN "Search failed. Please try again."
                       ELSE IF Len(moviesWithType) = 0
                       THEN "No results found. Try a different search."
                       ELSE error
           /\ shown' = IF ok THEN [type |-> req.type, results |-> resp.results]
                       ELSE shown
           /\ sub' = [sub EXCEPT !.errors = @ + nerr, !.replies = <<>>]
    /\ loading' = FALSE
    /\ pc' = "idle"
    /\ net' = net \ {req}
    /\ closure' = NoClosure
    /\ queryParams' = Null
    /\ genreIds' = <<>>
    /\ keywordResults' = <<>>
    /\ UNCHANGED <<env, userText, tmdbData, genresPc, calls, kwCalls>>

----------------------------------------------------------------------------

Next ==
    \/ fetchTMDBGenres
    \/ \E req \in net, resp \in GenreListResponses : GenresResponse(req, resp)
    \/ \E t \in Texts : SetUserText(t)
    \/ handleSearch
    \/ \E req \in net, resp \in GeminiResponses : GeminiResponse(req, resp)
    \/ \E req \in net, resp \in KeywordSearchResponses : KeywordResponse(req, resp)
    \/ \E req \in net, resp \in DiscoverResponses : DiscoverResponse(req, resp)

Spec == Init /\ [][Next]_vars

----------------------------------------------------------------------------
(* Properties *)

SearchRequests == { r \in net : r.kind # "genres" }
DiscoverInFlight == { r \in net : r.kind = "discover" }
CatalogCalls == calls \cap {"genres", "keyword", "discover"}

Done == ~loading /\ movies # <<>> /\ error = ""
Error == ~loading /\ error # "" /\ movies = <<>>

\* C1: once every network call of a submission (credentials present) has
\* settled, the orchestrator is in exactly one of Done (not loading, results,
\* no error message) and Error (not loading, error message, no results),
\* whatever the providers answered and whenever the genre-list fetch settled.
C1_SettledIsDoneOrError ==
    [][(TMDB_API_KEY /\ pc # "idle" /\ pc' = "idle") => (Done' \/ Error')]_vars

\* C2: a submission of non-empty text with the catalog token or the
\* generative-text key absent ends with an error message and loading false,
\* and issues no extractor, keyword-search or discover call.
C2_MissingCredentialsShortCircuit ==
    ((~TMDB_TOKEN \/ ~GEMINI_API_KEY) /\ sub.n > 0) =>
        /\ error # ""
        /\ ~loading
        /\ pc = "idle"
        /\ sub.gemini = 0 /\ sub.keyword = 0 /\ sub.discover = 0
        /\ SearchRequests = {}

C2_Witness ==
    /\ TMDB_TOKEN
    /\ ~GEMINI_API_KEY
    /\ sub.n > 0
    /\ error = "API keys are not configured."

\* C3: for each of the three credentials, when it is absent no call that uses
\* it is issued: no catalog request (genre list, keyword search, discover)
\* without the bearer token or without the catalog API key, no
\* generative-text request without its key.
C3_AbsentCredentialBlocksCalls ==
    /\ ~TMDB_TOKEN => CatalogCalls = {}
    /\ ~TMDB_API_KEY => CatalogCalls = {}
    /\ ~GEMINI_API_KEY => "gemini" \notin calls

C5_AtMostOneCallPerKeyword == \A k \in KeywordStrings : kwCalls[k] <= 1

\* C6: a displayed result of a movie search never has its adult flag set.
C6_NoAdultMovieDisplayed ==
    \A i \in 1..Len(movies) : movies[i].media_type = "movie" => ~movies[i].adult

C6_Witness ==
    /\ movies # <<>>
    /\ shown.type = "movie"
    /\ \E j \in 1..Len(shown.results) : shown.results[j].adult
    /\ ~shown.results[Len(shown.results)].adult

\* The provider's j-th title survives the adult filter of the search shown.
Kept(j) == shown.type = "tv" \/ ~shown.results[j].adult
\* How many of the provider's first j titles survive it.
Rank(j) == Cardinality({ k \in 1..j : Kept(k) })

\* C7: the displayed list has at most 50 items, is the prefix in provider
\* order of the provider's list after adult filtering, and has exactly 50
\* items when that list has more than 50.
C7_DisplayedIsCappedPrefix ==
    LET n == Len(shown.results)
    IN  /\ Len(movies) <= 50
        /\ Len(movies) <= Rank(n)
        /\ \A j \in 1..n :
              (Kept(j) /\ Rank(j) <= Len(movies)) =>
                  /\ movies[Rank(j)].id = shown.results[j].id
                  /\ movies[Rank(j)].adult = shown.results[j].adult
                  /\ movies[Rank(j)].media_type = shown.type
        /\ Rank(n) > 50 => Len(movies) = 50

C7_Witness ==
    /\ shown.type = "movie"
    /\ Len(movies) = 50
    /\ Rank(Len(shown.results)) > 50
    /\ shown.results[1].adult

\* The id a keyword resolution yielded, judged from what the provider or the
\* cache answered.
Resolved(reply) ==
    \/ reply.kind = "hit"
    \/ reply.kind = "ok" /\ reply.results # <<>>
ResolvedId(reply) == IF reply.kind = "hit" THEN reply.id ELSE reply.results[1].id

RECURSIVE ResolvedIds(_)
ResolvedIds(replies) ==
    IF replies = <<>> THEN <<>>
    ELSE (IF Resolved(Head(replies)) THEN <<ResolvedId(Head(replies))>> ELSE <<>>)
         \o ResolvedIds(Tail(replies))

\* C8: a keyword resolution that throws or finds nothing yields no id for
\* that keyword only: the discover call is issued once all resolutions have
\* settled, with the ids of exactly the keywords that resolved, and no
\* submission ends or reports an error because a resolution failed.
C8_KeywordFailureOnlyDropsItsId ==
    /\ \A d \in DiscoverInFlight :
          /\ \A i \in 1..Len(sub.replies) : sub.replies[i].kind # "pending"
          /\ d.params.with_keywords = ResolvedIds(sub.replies)
          /\ sub.errors = 0
    /\ (sub.keyword > 0 /\ pc = "idle") => sub.discover = 1

C8_Witness ==
    \E d \in DiscoverInFlight :
        /\ Len(sub.replies) = 2
        /\ sub.replies[1].kind = "throw"
        /\ sub.replies[2].kind = "ok"
        /\ d.params.with_keywords = <<2>>

\* C9: within one submission no keyword-search call is issued before the
\* extractor call has returned, the discover call is issued only after every
\* keyword resolution has settled, and at most one discover call is issued.
C9_StagesDoNotOverlap ==
    /\ (\E r \in net : r.kind = "gemini") =>
          /\ \A r \in net : r.kind \notin {"keyword", "discover"}
          /\ sub.keyword = 0
          /\ sub.discover = 0
    /\ (\E r \in net : r.kind = "keyword") =>
          /\ DiscoverInFlight = {}
          /\ sub.discover = 0
    /\ DiscoverInFlight # {} =>
          \A i \in 1..Len(sub.replies) : sub.replies[i].kind # "pending"
    /\ sub.discover <= 1
    /\ Cardinality(DiscoverInFlight) <= 1

C9_Witness ==
    /\ DiscoverInFlight # {}
    /\ sub.keyword = 2
    /\ sub.gemini = 1

\* The extractor call of the current submission failed: it threw, returned
\* no text, or returned text that does not parse.
ExtractorFailed == sub.extractor \in {"throw", "notext", "unparsable"}

\* C10: when the extractor fails the search is aborted: no keyword-search
\* and no discover call, no second extractor call, exactly one error message
\* set, an empty result list, and loading back to false.
C10_ExtractorFailureAborts ==
    ExtractorFailed =>
        /\ pc = "idle"
        /\ SearchRequests = {}
        /\ sub.keyword = 0
        /\ sub.discover = 0
        /\ sub.gemini = 1
        /\ sub.errors = 1
        /\ error # ""
        /\ movies = <<>>
        /\ ~loading

C10_Witness ==
    /\ sub.extractor = "unparsable"
    /\ error = "Failed to process your request."

\* A step in which handleSearch takes up a submission of non-empty text: it
\* runs to its first network call, or to its return when it issues none.
SubmissionStarts == sub'.n = sub.n + 1

\* C11: every submission of non-empty text resets the previous outcome: when
\* its first network call is issued, or when it ends without one, the result
\* list is empty and the error message is empty or the message this
\* submission itself set, on the missing-credentials path too.
C11_SubmissionResetsOutcome ==
    [][SubmissionStarts =>
          /\ movies' = <<>>
          /\ \/ error' = "" /\ sub'.errors = 0
             \/ error' = "API keys are not configured." /\ sub'.errors = 1]_vars

\* The second submission's extractor call is in flight after a first search
\* that resolved a keyword, so reached its discover call and ended with
\* results or with an error message.
C11_Witness ==
    /\ sub.n = 2
    /\ pc = "awaitGemini"
    /\ tmdbData.keywords # {}
    /\ movies = <<>>
    /\ error = ""

CacheKeys == { e.key : e \in tmdbData.keywords }

\* C12: the keyword cache only grows and concurrent writes do not conflict:
\* no step removes a cached keyword, a step that writes the keyword cache
\* leaves the genre list alone and a step that writes the genre list leaves
\* the keyword cache alone, and once all resolutions of a submission have
\* settled the cache holds, for every keyword that resolved, an entry with an
\* id the provider gave for it.
C12_KeywordCacheGrowsWithoutLoss ==
    /\ [][/\ { e.key : e \in tmdbData.keywords } \subseteq
              { e.key : e \in tmdbData'.keywords }
          /\ tmdbData'.keywords # tmdbData.keywords =>
                tmdbData'.genres = tmdbData.genres
          /\ tmdbData'.genres # tmdbData.genres =>
                tmdbData'.keywords = tmdbData.keywords]_vars
    /\ [](DiscoverInFlight # {} =>
            \A i \in 1..Len(sub.replies) :
               (sub.replies[i].kind = "ok" /\ sub.replies[i].results # <<>>) =>
                  \E e \in tmdbData.keywords :
                     /\ e.key = queryParams.keywords[i]
                     /\ \E j \in 1..Len(sub.replies) :
                           /\ queryParams.keywords[j] = e.key
                           /\ sub.replies[j].kind = "ok"
                           /\ sub.replies[j].results # <<>>
                           /\ sub.replies[j].results[1].id = e.id)

\* Two different keywords of one intent both resolved, the genre list loaded.
C12_Witness ==
    /\ DiscoverInFlight # {}
    /\ Len(sub.replies) = 2
    /\ queryParams.keywords[1] # queryParams.keywords[2]
    /\ sub.replies[1].kind = "ok" /\ sub.replies[1].results # <<>>
    /\ sub.replies[2].kind = "ok" /\ sub.replies[2].results # <<>>
    /\ Cardinality(CacheKeys) = 2
    /\ tmdbData.genres # <<>>

\* C13: every key of the keyword cache is lowercase, so that keyword strings
\* differing only in letter case share one cache entry.
C13_CacheKeysAreLowercase ==
    \A e \in tmdbData.keywords : e.key = ToLowerCase(e.key)

\* handleSearch takes up a new submission of non-empty text.
SubmissionTaken == handleSearch /\ SubmissionStarts

\* C14 as stated: overlapping submissions are not guarded against, so while
\* a submission is in flight (and the input holds text) a new submission can
\* start, without cancelling the one in flight.
C14_NewSubmissionCanOverlap ==
    (pc # "idle" /\ Trim(userText) # <<>> /\ sub.n < MaxSearches) =>
        ENABLED SubmissionTaken

\* C14: handleSearch has no guard and no cancellation of its own, but the
\* form can be submitted only while loading is false, and loading is true
\* from a submission's first call until its last call has settled: while a
\* call of a submission is in flight no new submission can start, so no
\* search writes its outcome after a newer one.
C14_FormBlocksOverlap ==
    (pc # "idle" \/ SearchRequests # {}) =>
        /\ loading
        /\ pc # "idle"
        /\ SearchRequests # {}
        /\ ~ENABLED SubmissionTaken

\* A first submission is waiting for its keyword calls, the input still
\* holds text and a further submission is within the bound.
C14_Witness ==
    /\ pc = "awaitKeywords"
    /\ sub.n = 1
    /\ Trim(userText) # <<>>
    /\ loading

====
